---- MODULE Spec2Model ----
(***************************************************************************)
(* Model of the Hyperliquid anomaly trading bot:                           *)
(*   - VolumeAnomalyDetector  (src/src/volume_anomaly_detector.py)         *)
(*   - AnomalyTradingBot      (src/main.py)                                *)
(*   - the gateway HyperliquidExchange as the bot sees it                  *)
(*     (src/src/hyperliquid_exchange.py)                                   *)
(*                                                                         *)
(* Prices, volumes and thresholds are small naturals; the statistics are   *)
(* computed exactly on them (no floating point rounding).  Time is counted *)
(* in whole units; SecondsPerDay is the scaled length of a day, the point  *)
(* where timedelta.seconds wraps.                                          *)
(***************************************************************************)
EXTENDS Integers, Sequences, FiniteSets, TLC

VARIABLES
    cfg,               \* configuration read in AnomalyTradingBot.__init__
    detector,          \* VolumeAnomalyDetector: windows and baselines
    active_orders,     \* AnomalyTradingBot.active_orders  (dict symbol -> list)
    position_tracker,  \* AnomalyTradingBot.position_tracker (dict symbol -> dict)
    running,           \* AnomalyTradingBot.running
    pc,                \* position of the poll loop inside start()
    now,               \* the clock read by datetime.now()
    exch_resting,      \* exchange: order ids resting on the book
    exch_position,     \* exchange: signed position size per symbol
    \* history variables, written by the detector's own specifications
    last_detect,       \* record of the last detect_anomaly call
    last_update,       \* the update_data calls of the last detector call, by symbol
    last_ok,           \* per symbol, newest observed sample classified normal
    observed,          \* symbols update_data was ever called for
    \* history variables, written by the bot's specifications
    last_call,         \* which operation of the bot ran last, and on what
    requests,          \* the gateway requests that operation issued, in order
    failed_cancels,    \* the orders whose cancel failed in the last check_expired_orders
    failed_closes,     \* the symbols whose close failed in the last check_and_close_old_positions
    reconciled         \* fill detection has run in the current tick

vars == <<cfg, detector, active_orders, position_tracker, running, pc,
          now, exch_resting, exch_position, last_detect,
          last_update, last_ok, observed, last_call, requests,
          failed_cancels, failed_closes, reconciled>>

botVars == <<active_orders, position_tracker, running, pc, now,
             exch_resting, exch_position, last_call, requests, failed_cancels,
             failed_closes, reconciled>>

detGhosts == <<last_detect, last_update, last_ok, observed>>

(***************************************************************************)
(* Bounds and input sets                                                   *)
(***************************************************************************)
Symbols == {"A", "B"}

\* iteration order of the snapshot dict (the order of the exchange universe)
SymbolOrder == <<"A", "B">>

\* the (price, volume_24h) readings the feed reports for a symbol
Readings(symbol) ==
    IF symbol = "A"
    THEN {[price |-> 1, volume |-> 1], [price |-> 2, volume |-> 2],
          [price |-> 2, volume |-> 4]}
    ELSE {[price |-> 1, volume |-> 1], [price |-> 1, volume |-> 2]}

\* a reading the filter of scan_all_assets rejects whatever its volume
ZeroPrice == [price |-> 0, volume |-> 2]

Modes == {"vol_only", "price_only", "vol_and_price", "vol_or_price"}

\* scaled length of one day: timedelta.seconds is the age modulo one day
SecondsPerDay == 4

\* the clock stops advancing here
MaxTime == 5

\* the exchange hands out order ids 1..MaxOid
MaxOid == 2

NoCall == [kind |-> "none"]

(***************************************************************************)
(* Helpers on sequences and dicts                                          *)
(***************************************************************************)
RECURSIVE Sum(_)
Sum(seq) == IF seq = <<>> THEN 0 ELSE Head(seq) + Sum(Tail(seq))

RECURSIVE SumSq(_)
SumSq(seq) == IF seq = <<>> THEN 0 ELSE Head(seq) * Head(seq) + SumSq(Tail(seq))

Abs(x) == IF x < 0 THEN -x ELSE x

\* d[k] = v   on a dict modelled as a function whose domain is its key set
DictSet(d, k, v) == [x \in (DOMAIN d) \cup {k} |-> IF x = k THEN v ELSE d[x]]

\* del d[k]
DictDel(d, k) == [x \in (DOMAIN d) \ {k} |-> d[x]]

EmptyDict == [x \in {} |-> 0]

\* exact fractions for prices and sizes: num / den with den > 0, in lowest terms
RECURSIVE GCD(_, _)
GCD(a, b) == IF b = 0 THEN a ELSE GCD(b, a % b)

Rat(n, d) ==
    LET g == GCD(Abs(n), Abs(d))
        sgn == IF d < 0 THEN -1 ELSE 1
    IN  [num |-> sgn * (n \div g), den |-> sgn * (d \div g)]

Zero == [num |-> 0, den |-> 1]

RatAdd(a, b) == Rat(a.num * b.den + b.num * a.den, a.den * b.den)

RatNeg(a) == [num |-> -a.num, den |-> a.den]

RatAbs(a) == [num |-> Abs(a.num), den |-> a.den]

RECURSIVE RatSum(_)
RatSum(seq) == IF seq = <<>> THEN Zero ELSE RatAdd(Head(seq), RatSum(Tail(seq)))

(***************************************************************************)
(* VolumeAnomalyDetector                                                   *)
(***************************************************************************)

\* deque(maxlen=window_size).append: the oldest sample is evicted when full
PushNoEvict(hist, x) == Append(hist, x)

Push(hist, x) ==
    IF cfg.window_size = 0 THEN hist
    ELSE IF Len(hist) >= cfg.window_size THEN Append(Tail(hist), x)
    ELSE Append(hist, x)

DetectorInit ==
    [volume_history     |-> [s \in Symbols |-> <<>>],
     price_history      |-> [s \in Symbols |-> <<>>],
     last_normal_volume |-> EmptyDict,
     last_normal_price  |-> EmptyDict]

\* The z-score (x - mean) / std of x against hist is kept exact as the pair
\* num / sqrt(rad): with n = len, S = sum, Q = sum of squares,
\*   mean = S/n, std = sqrt(n*Q - S*S)/n, z = (n*x - S) / sqrt(n*Q - S*S).
\* When std = 0 the code sets z to 1.0 or 0.
ZScoreUnguarded(hist, x, threshold) ==
    LET n   == Len(hist)
        S   == Sum(hist)
        Q   == SumSq(hist)
    IN  [num |-> n * x - S, rad |-> n * Q - S * S]

ZScore(hist, x, threshold) ==
    LET n   == Len(hist)
        S   == Sum(hist)
        Q   == SumSq(hist)
        rad == n * Q - S * S
    IN  IF rad > 0
        THEN [num |-> n * x - S, rad |-> rad]
        ELSE IF n * x # S /\ threshold = 0
             THEN [num |-> 1, rad |-> 1]
             ELSE [num |-> 0, rad |-> 1]

\* abs(z) >= threshold if threshold == 0 else abs(z) > threshold
Exceeds(z, threshold) ==
    IF threshold = 0
    THEN z.num * z.num >= threshold * threshold * z.rad
    ELSE z.num * z.num >  threshold * threshold * z.rad

CombineModeEither(mode, volume_anomaly, price_anomaly) ==
    CASE mode = "vol_only"      -> volume_anomaly
      [] mode = "price_only"    -> price_anomaly
      [] OTHER                  -> volume_anomaly \/ price_anomaly

CombineMode(mode, volume_anomaly, price_anomaly) ==
    CASE mode = "vol_only"      -> volume_anomaly
      [] mode = "price_only"    -> price_anomaly
      [] mode = "vol_and_price" -> volume_anomaly /\ price_anomaly
      [] mode = "vol_or_price"  -> volume_anomaly \/ price_anomaly
      [] OTHER                  -> volume_anomaly

InsufficientDataOff(det, symbol) == FALSE

InsufficientData(det, symbol) ==
    Len(det.volume_history[symbol]) < cfg.min_samples

detect_anomaly(det, symbol, current_price, current_volume) ==
    LET volume_history == det.volume_history[symbol]
        price_history  == det.price_history[symbol]
        volume_z_score == ZScore(volume_history, current_volume, cfg.volume_z_threshold)
        price_z_score  == ZScore(price_history, current_price, cfg.price_z_threshold)
        volume_anomaly == Exceeds(volume_z_score, cfg.volume_z_threshold)
        price_anomaly  == Exceeds(price_z_score, cfg.price_z_threshold)
    IN  IF InsufficientData(det, symbol)
        THEN [is_anomaly |-> FALSE, reason |-> "Insufficient data",
              symbol |-> symbol,
              current_price |-> current_price, current_volume |-> current_volume,
              volume_z_score |-> [num |-> 0, rad |-> 1],
              price_z_score |-> [num |-> 0, rad |-> 1],
              volume_anomaly |-> FALSE, price_anomaly |-> FALSE,
              samples |-> Len(volume_history)]
        ELSE [is_anomaly |-> CombineMode(cfg.detection_mode, volume_anomaly, price_anomaly),
              reason |-> "",
              symbol |-> symbol,
              current_price |-> current_price, current_volume |-> current_volume,
              volume_z_score |-> volume_z_score,
              price_z_score |-> price_z_score,
              volume_anomaly |-> volume_anomaly, price_anomaly |-> price_anomaly,
              samples |-> Len(volume_history)]

is_anomalous(det, symbol, price, volume) ==
    detect_anomaly(det, symbol, price, volume).is_anomaly

SetBaseline(det, symbol, price, volume) ==
    [det EXCEPT !.last_normal_volume = DictSet(@, symbol, volume),
                !.last_normal_price  = DictSet(@, symbol, price)]

AppendSample(det, symbol, price, volume) ==
    [det EXCEPT !.volume_history[symbol] = Push(@, volume),
                !.price_history[symbol]  = Push(@, price)]

update_data_always_baseline(det, symbol, price, volume) ==
    AppendSample(SetBaseline(det, symbol, price, volume), symbol, price, volume)

update_data(det, symbol, price, volume) ==
    IF ~is_anomalous(det, symbol, price, volume)
    THEN LET n    == Len(det.volume_history[symbol])
             base == IF n > cfg.min_samples
                     THEN SetBaseline(det, symbol, price, volume)
                     ELSE IF n < cfg.min_samples
                          THEN SetBaseline(det, symbol, price, volume)
                          ELSE det
         IN  AppendSample(base, symbol, price, volume)
    ELSE det

\* floor(sqrt(x)) by bisection on lo..hi
RECURSIVE ISqrtIn(_, _, _)
ISqrtIn(x, lo, hi) ==
    IF lo >= hi THEN lo
    ELSE LET mid == (lo + hi + 1) \div 2
         IN  IF mid * mid <= x THEN ISqrtIn(x, mid, hi) ELSE ISqrtIn(x, lo, mid - 1)

\* abs(z) in thousandths, rounded down; abs(z) <= abs(z.num) as z.rad >= 1
AbsMilli(z) == ISqrtIn((1000000 * z.num * z.num) \div z.rad, 0, 1000 * Abs(z.num))

\* sort key of scan_all_assets: abs(volume_z_score) + abs(price_z_score)
Magnitude(details) == AbsMilli(details.volume_z_score) + AbsMilli(details.price_z_score)

\* list.sort(key=Magnitude, reverse=True): stable, ties keep their order
RECURSIVE InsertRanked(_, _)
InsertRanked(sorted, d) ==
    IF sorted = <<>> THEN <<d>>
    ELSE IF Magnitude(Head(sorted)) >= Magnitude(d)
         THEN <<Head(sorted)>> \o InsertRanked(Tail(sorted), d)
         ELSE <<d>> \o sorted

RECURSIVE SortRanked(_)
SortRanked(list) ==
    IF list = <<>> THEN <<>>
    ELSE InsertRanked(SortRanked(SubSeq(list, 1, Len(list) - 1)), list[Len(list)])

\* data.get("price", 0) > 0 and data.get("volume_24h", 0) >= min_volume_usd
PassesFilterAny(data) == TRUE

PassesFilter(data) == data.price > 0 /\ data.volume >= cfg.min_volume_usd

\* the for loop of scan_all_assets from position i of the snapshot on
RECURSIVE ScanLoop(_, _, _, _)
ScanLoop(det, data, i, anomalies) ==
    IF i > Len(SymbolOrder) THEN [det |-> det, anomalies |-> anomalies]
    ELSE LET symbol == SymbolOrder[i]
         IN  IF symbol \in DOMAIN data /\ PassesFilter(data[symbol])
             THEN LET price   == data[symbol].price
                      volume  == data[symbol].volume
                      details == detect_anomaly(det, symbol, price, volume)
                      det2    == update_data(det, symbol, price, volume)
                  IN  ScanLoop(det2, data, i + 1,
                               IF details.is_anomaly THEN Append(anomalies, details)
                               ELSE anomalies)
             ELSE ScanLoop(det, data, i + 1, anomalies)

scan_all_assets_unsorted(det, data) ==
    LET r == ScanLoop(det, data, 1, <<>>)
    IN  [det |-> r.det, anomalies |-> r.anomalies]

scan_all_assets(det, data) ==
    LET r == ScanLoop(det, data, 1, <<>>)
    IN  [det |-> r.det, anomalies |-> SortRanked(r.anomalies)]

(***************************************************************************)
(* Records of the calls made (history variables)                           *)
(***************************************************************************)
BaselineOf(det, symbol) ==
    IF symbol \in DOMAIN det.last_normal_price
    THEN [has |-> TRUE, price |-> det.last_normal_price[symbol],
          volume |-> det.last_normal_volume[symbol]]
    ELSE [has |-> FALSE, price |-> 0, volume |-> 0]

\* what one update_data(symbol, price, volume) call on det leaves in last_update:
\* the sample, the length of the window before the call and the result of
\* detect_anomaly on the history before the call
UpdateRecord(det, symbol, price, volume) ==
    [price |-> price, volume |-> volume,
     anomalous |-> detect_anomaly(det, symbol, price, volume).is_anomaly,
     samples |-> Len(det.volume_history[symbol])]

Observed(data) == {s \in DOMAIN data : PassesFilter(data[s])}

(***************************************************************************)
(* Configuration                                                           *)
(***************************************************************************)
\* price_multipliers zipped with order_amounts_usdc; a multiplier is num/den
Legs == <<[multiplier |-> [num |-> 1, den |-> 2], amount_usdc |-> 50],
          [multiplier |-> [num |-> 3, den |-> 1], amount_usdc |-> 50]>>

\* a configuration with a leg whose multiplier is exactly 1.0
LegsAtPar == <<[multiplier |-> [num |-> 1, den |-> 1], amount_usdc |-> 50],
               [multiplier |-> [num |-> 3, den |-> 1], amount_usdc |-> 50]>>

BaseConfig ==
    [window_size            |-> 3,
     min_samples            |-> 1,
     volume_z_threshold     |-> 1,
     price_z_threshold      |-> 1,
     detection_mode         |-> "vol_only",
     min_volume_usd         |-> 0,
     order_timeout          |-> 2,
     position_close_timeout |-> 3,
     max_concurrent_orders  |-> 1,
     target_symbols         |-> {},
     legs                   |-> Legs]

\* configurations of the detector specification: every mode with both
\* thresholds 0 and both 1, windows longer than and equal to min_samples
DetConfigs ==
    {[BaseConfig EXCEPT !.window_size = wm[1], !.min_samples = wm[2],
                        !.volume_z_threshold = t, !.price_z_threshold = t,
                        !.detection_mode = mode] :
        wm \in {<<2, 1>>, <<2, 2>>}, t \in {0, 1}, mode \in Modes}
    \cup
    {[BaseConfig EXCEPT !.window_size = 2, !.min_volume_usd = 2,
                        !.volume_z_threshold = vt, !.price_z_threshold = pt] :
        vt \in {0, 1}, pt \in {0, 1}}

\* snapshots returned by get_all_asset_data: any subset of the symbols, each
\* with one of its readings or a zero price
Snapshots ==
    UNION {{data \in [keys -> UNION {Readings(s) : s \in Symbols} \cup {ZeroPrice}] :
               \A s \in keys : data[s] \in Readings(s) \cup {ZeroPrice}} :
           keys \in SUBSET Symbols}

(***************************************************************************)
(* Initial state                                                           *)
(***************************************************************************)
InitState ==
    /\ detector = DetectorInit
    /\ active_orders = EmptyDict
    /\ position_tracker = EmptyDict
    /\ running = TRUE
    /\ pc = "top"
    /\ now = 0
    /\ exch_resting = {}
    /\ exch_position = [s \in Symbols |-> Zero]
    /\ last_detect = NoCall
    /\ last_update = EmptyDict
    /\ last_ok = EmptyDict
    /\ observed = {}
    /\ last_call = [op |-> "none"]
    /\ requests = <<>>
    /\ failed_cancels = {}
    /\ failed_closes = {}
    /\ reconciled = FALSE

(***************************************************************************)
(* The detector called on its own                                          *)
(***************************************************************************)
\* detect_anomaly(symbol, price, volume) called on its own
DetectAdmits(symbol, price, volume) ==
    /\ last_detect' = [kind |-> "detect", symbol |-> symbol,
                       samples |-> Len(detector.volume_history[symbol]),
                       is_anomaly |-> detect_anomaly(detector, symbol, price, volume).is_anomaly]
    /\ detector' = AppendSample(detector, symbol, price, volume)
    /\ UNCHANGED <<cfg, last_update, last_ok, observed, botVars>>

Detect(symbol, price, volume) ==
    /\ last_detect' = [kind |-> "detect", symbol |-> symbol,
                       samples |-> Len(detector.volume_history[symbol]),
                       is_anomaly |-> detect_anomaly(detector, symbol, price, volume).is_anomaly]
    /\ UNCHANGED <<cfg, detector, last_update, last_ok, observed, botVars>>

\* the history variables after scan_all_assets(data) ran on det
ScanUpdates(det, data) ==
    [s \in Observed(data) |-> UpdateRecord(det, s, data[s].price, data[s].volume)]

ScanOk(det, data, old) ==
    LET normal == {s \in Observed(data) :
                      ~detect_anomaly(det, s, data[s].price, data[s].volume).is_anomaly}
    IN  [s \in (DOMAIN old) \cup normal |->
            IF s \in normal
            THEN [price |-> data[s].price, volume |-> data[s].volume]
            ELSE old[s]]

UpdateData(symbol, price, volume) ==
    LET data == [s \in {symbol} |-> [price |-> price, volume |-> volume]]
    IN  /\ detector' = update_data(detector, symbol, price, volume)
        /\ last_update' = [s \in {symbol} |-> UpdateRecord(detector, symbol, price, volume)]
        /\ last_ok' = IF is_anomalous(detector, symbol, price, volume)
                      THEN last_ok
                      ELSE DictSet(last_ok, symbol, [price |-> price, volume |-> volume])
        /\ observed' = observed \cup {symbol}
        /\ last_detect' = NoCall
        /\ UNCHANGED <<cfg, botVars>>

\* the detector's part of a step that runs scan_all_assets(data)
Scanned(data) ==
    /\ detector' = scan_all_assets(detector, data).det
    /\ last_update' = ScanUpdates(detector, data)
    /\ last_ok' = ScanOk(detector, data, last_ok)
    /\ observed' = observed \cup Observed(data)
    /\ last_detect' = NoCall

ScanAll(data) ==
    /\ Scanned(data)
    /\ UNCHANGED <<cfg, botVars>>

InitDet == cfg \in DetConfigs /\ InitState

NextDet ==
    \/ \E s \in Symbols : \E r \in Readings(s) : Detect(s, r.price, r.volume)
    \/ \E s \in Symbols : \E r \in Readings(s) : UpdateData(s, r.price, r.volume)
    \/ \E data \in Snapshots : ScanAll(data)

SpecDet == InitDet /\ [][NextDet]_vars

\* scan_all_assets called on its own, as the poll loop calls it
NextScan == \E data \in Snapshots : ScanAll(data)

SpecScan == InitDet /\ [][NextScan]_vars

(***************************************************************************)
(* AnomalyTradingBot: the operations on                                    *)
(*   st = [active_orders, position_tracker, resting, position, requests]   *)
(* where resting and position are the exchange's side of the account       *)
(***************************************************************************)
Keys(d) == DOMAIN d

\* len(self.active_orders) >= self.max_concurrent_orders
CapReachedOff(orders) == FALSE

CapReached(orders) == Cardinality(Keys(orders)) >= cfg.max_concurrent_orders

\* (current_time - placed_at).seconds: the seconds field of the timedelta,
\* that is the age modulo one day
Seconds(age) == age % SecondsPerDay

\* elapsed >= self.order_timeout
ExpiredStrict(elapsed) == elapsed > cfg.order_timeout

Expired(elapsed) == elapsed >= cfg.order_timeout

\* elapsed >= self.position_close_timeout
CloseDue(elapsed) == elapsed >= cfg.position_close_timeout

\* ids the exchange can hand out: not resting and not remembered by the bot
FreeIds(st) ==
    (1..MaxOid) \ ({r.order_id : r \in st.resting}
                   \cup UNION {{st.active_orders[s][i].order_id :
                                   i \in 1..Len(st.active_orders[s])} :
                               s \in Keys(st.active_orders)})

MinOf(S) == CHOOSE x \in S : \A y \in S : x <= y

\* the dict stored in position_tracker for a list of orders
TrackerOf(orders) ==
    [opened_at    |-> orders[1].placed_at,
     is_buy       |-> orders[1].is_buy,
     entry_prices |-> [i \in 1..Len(orders) |-> orders[i].price],
     sizes        |-> [i \in 1..Len(orders) |-> orders[i].size],
     total_size   |-> RatSum([i \in 1..Len(orders) |-> orders[i].size]),
     orders_count |-> Len(orders)]

\* target_price = last_normal_price * multiplier
TargetPrice(last_normal_price, multiplier) ==
    Rat(last_normal_price * multiplier.num, multiplier.den)

\* order_size = amount_usdc / target_price
OrderSize(amount_usdc, target_price) ==
    Rat(amount_usdc * target_price.den, target_price.num)

\* is_buy = multiplier < 1.0
IsBuyAtPar(multiplier) == multiplier.num <= multiplier.den

IsBuy(multiplier) == multiplier.num < multiplier.den

\* the leg the for loop turns to after leg i, placed or not: the loop has no
\* break
NextLegAbortOnError(i, ok) == IF ok THEN i + 1 ELSE Len(cfg.legs) + 1

NextLeg(i, ok) == i + 1

\* the for loop over zip(price_multipliers, order_amounts_usdc) from leg i on;
\* outcome[i] is what place_limit_order returns for leg i
RECURSIVE PlaceLegs(_, _, _, _, _, _, _)
PlaceLegs(st, symbol, last_normal_price, i, outcome, t, orders_placed) ==
    IF i > Len(cfg.legs) THEN [st |-> st, orders_placed |-> orders_placed]
    ELSE LET multiplier   == cfg.legs[i].multiplier
             amount_usdc  == cfg.legs[i].amount_usdc
             target_price == TargetPrice(last_normal_price, multiplier)
             order_size   == OrderSize(amount_usdc, target_price)
             is_buy       == IsBuy(multiplier)
             ok           == outcome[i] = "success" /\ FreeIds(st) # {}
             order_id     == MinOf(FreeIds(st))
             request      == [op |-> "place", symbol |-> symbol, leg |-> i,
                              is_buy |-> is_buy, price |-> target_price,
                              size |-> order_size, post_only |-> TRUE,
                              result |-> IF ok THEN "success" ELSE "error"]
             order_info   == [order_id |-> order_id, price |-> target_price,
                              size |-> order_size, is_buy |-> is_buy,
                              placed_at |-> t,
                              last_normal_price |-> last_normal_price,
                              multiplier |-> multiplier,
                              amount_usdc |-> amount_usdc]
         IN  IF ok
             THEN PlaceLegs([st EXCEPT !.resting = @ \cup {[order_id |-> order_id,
                                                            symbol |-> symbol,
                                                            is_buy |-> is_buy,
                                                            size |-> order_size,
                                                            placed_at |-> t]},
                                       !.requests = Append(@, request)],
                            symbol, last_normal_price, NextLeg(i, ok), outcome, t,
                            Append(orders_placed, order_info))
             ELSE PlaceLegs([st EXCEPT !.requests = Append(@, request)],
                            symbol, last_normal_price, NextLeg(i, ok), outcome, t,
                            orders_placed)

\* if orders_placed: self.active_orders[symbol] = orders_placed, and the
\* position_tracker entry derived from the placed orders
StoreOrdersAlways(st, symbol, orders_placed) ==
    [st EXCEPT !.active_orders = DictSet(@, symbol, orders_placed),
               !.position_tracker = IF orders_placed # <<>>
                                    THEN DictSet(@, symbol, TrackerOf(orders_placed))
                                    ELSE @]

StoreOrders(st, symbol, orders_placed) ==
    IF orders_placed # <<>>
    THEN [st EXCEPT !.active_orders = DictSet(@, symbol, orders_placed),
                    !.position_tracker = DictSet(@, symbol, TrackerOf(orders_placed))]
    ELSE st

process_anomaly_no_active_check(st, det, anomaly, outcome, t) ==
    LET symbol == anomaly.symbol
    IN  IF CapReached(st.active_orders) THEN st
        ELSE IF symbol \notin Keys(det.last_normal_price)
                \/ det.last_normal_price[symbol] = 0 THEN st
        ELSE IF anomaly.current_price = 0 THEN st
        ELSE LET r == PlaceLegs(st, symbol, det.last_normal_price[symbol], 1,
                                outcome, t, <<>>)
             IN  StoreOrders(r.st, symbol, r.orders_placed)

process_anomaly(st, det, anomaly, outcome, t) ==
    LET symbol == anomaly.symbol
    IN  IF symbol \in Keys(st.active_orders) THEN st
        ELSE IF CapReached(st.active_orders) THEN st
        ELSE IF symbol \notin Keys(det.last_normal_price)
                \/ det.last_normal_price[symbol] = 0 THEN st
        ELSE IF anomaly.current_price = 0 THEN st
        ELSE LET r == PlaceLegs(st, symbol, det.last_normal_price[symbol], 1,
                                outcome, t, <<>>)
             IN  StoreOrders(r.st, symbol, r.orders_placed)

\* the loop over the orders of one symbol in check_expired_orders from order
\* i on; outcome[order_id] is what cancel_order returns
RECURSIVE ExpireLoop(_, _, _, _, _, _, _)
ExpireLoop(st, symbol, orders, i, outcome, t, remaining_orders) ==
    IF i > Len(orders) THEN [st |-> st, remaining_orders |-> remaining_orders]
    ELSE LET order   == orders[i]
             elapsed == Seconds(t - order.placed_at)
             result  == outcome[order.order_id]
             request == [op |-> "cancel", symbol |-> symbol,
                         order_id |-> order.order_id,
                         age |-> t - order.placed_at, result |-> result]
         IN  IF Expired(elapsed)
             THEN IF result = "success"
                  THEN ExpireLoop([st EXCEPT
                                      !.resting = {r \in @ : r.order_id # order.order_id},
                                      !.requests = Append(@, request)],
                                  symbol, orders, i + 1, outcome, t, remaining_orders)
                  ELSE ExpireLoop([st EXCEPT !.requests = Append(@, request)],
                                  symbol, orders, i + 1, outcome, t,
                                  Append(remaining_orders, order))
             ELSE ExpireLoop(st, symbol, orders, i + 1, outcome, t,
                             Append(remaining_orders, order))

\* a symbol with no remaining orders: del self.active_orders[symbol] and, if
\* present, del self.position_tracker[symbol]
ClearSymbolKeepTracker(st, symbol) ==
    [st EXCEPT !.active_orders = DictDel(@, symbol)]

ClearSymbol(st, symbol) ==
    [st EXCEPT !.active_orders = DictDel(@, symbol),
               !.position_tracker = DictDel(@, symbol)]

\* check_expired_orders from symbol k of the key list on
RECURSIVE ExpireSymbols(_, _, _, _)
ExpireSymbols(st, k, outcome, t) ==
    IF k > Len(SymbolOrder) THEN st
    ELSE LET symbol == SymbolOrder[k]
         IN  IF symbol \notin Keys(st.active_orders)
             THEN ExpireSymbols(st, k + 1, outcome, t)
             ELSE LET r == ExpireLoop(st, symbol, st.active_orders[symbol], 1,
                                      outcome, t, <<>>)
                      st2 == IF r.remaining_orders # <<>>
                             THEN [r.st EXCEPT !.active_orders =
                                       DictSet(@, symbol, r.remaining_orders)]
                             ELSE ClearSymbol(r.st, symbol)
                  IN  ExpireSymbols(st2, k + 1, outcome, t)

check_expired_orders(st, outcome, t) == ExpireSymbols(st, 1, outcome, t)

\* HyperliquidExchange.get_positions: the symbols with a nonzero size, or the
\* empty dict when the query fails
get_positions(position, query) ==
    IF query = "ok"
    THEN [s \in {x \in Symbols : position[x].num # 0} |-> [size |-> position[s]]]
    ELSE EmptyDict

\* first loop of check_and_close_old_positions: fill detection
RECURSIVE PromoteFilled(_, _, _)
PromoteFilled(st, positions, k) ==
    IF k > Len(SymbolOrder) THEN st
    ELSE LET symbol == SymbolOrder[k]
         IN  IF /\ symbol \in Keys(positions)
                /\ symbol \notin Keys(st.position_tracker)
                /\ symbol \in Keys(st.active_orders)
             THEN PromoteFilled(
                      [st EXCEPT
                          !.position_tracker =
                              DictSet(@, symbol, TrackerOf(st.active_orders[symbol])),
                          !.active_orders = DictDel(@, symbol)],
                      positions, k + 1)
             ELSE PromoteFilled(st, positions, k + 1)

\* del self.position_tracker[symbol] for a tracked symbol the exchange reports
\* no position for
DropUntrackedOff(tracker, symbol) == tracker

DropUntracked(tracker, symbol) == DictDel(tracker, symbol)

\* size=abs(position_size): the size of the close order
CloseSizeFromTracker(position_size, tracker) == tracker.total_size

CloseSize(position_size, tracker) == RatAbs(position_size)

\* second loop of check_and_close_old_positions: close what is held too long;
\* outcome[symbol] is what place_market_order returns
RECURSIVE CloseOld(_, _, _, _, _)
CloseOld(st, positions, k, outcome, t) ==
    IF k > Len(SymbolOrder) THEN st
    ELSE LET symbol == SymbolOrder[k]
         IN  IF symbol \notin Keys(st.position_tracker)
             THEN CloseOld(st, positions, k + 1, outcome, t)
             ELSE LET tracker == st.position_tracker[symbol]
                      elapsed == Seconds(t - tracker.opened_at)
                  IN  IF ~CloseDue(elapsed)
                      THEN CloseOld(st, positions, k + 1, outcome, t)
                      ELSE IF symbol \notin Keys(positions)
                      THEN CloseOld([st EXCEPT !.position_tracker =
                                                   DropUntracked(@, symbol)],
                                    positions, k + 1, outcome, t)
                      ELSE LET position_size == positions[symbol].size
                               request == [op |-> "close", symbol |-> symbol,
                                           is_buy |-> position_size.num < 0,
                                           size |-> CloseSize(position_size, tracker),
                                           reduce_only |-> TRUE,
                                           result |-> outcome[symbol]]
                           IN  IF outcome[symbol] = "success"
                               THEN CloseOld(
                                      [st EXCEPT
                                          !.position_tracker = DictDel(@, symbol),
                                          !.position[symbol] = Zero,
                                          !.requests = Append(@, request)],
                                      positions, k + 1, outcome, t)
                               ELSE CloseOld([st EXCEPT !.requests = Append(@, request)],
                                             positions, k + 1, outcome, t)

check_and_close_old_positions(st, query, outcome, t) ==
    LET positions == get_positions(st.position, query)
    IN  CloseOld(PromoteFilled(st, positions, 1), positions, 1, outcome, t)

(***************************************************************************)
(* The poll loop AnomalyTradingBot.start and its environment               *)
(***************************************************************************)
PlaceOutcomes == [1..Len(Legs) -> {"success", "error"}]

GatewayOutcomes == {"success", "error"}

\* time that passes while the loop sleeps
SleepSteps == {1}

\* configurations of the poll loop: the detector as main.py builds it (scaled
\* down), with order_timeout below, equal to and above position_close_timeout
\* and of a whole day, a cap of 0, 1 and 2 order sets, and with and without a
\* SYMBOLS filter
BotConfig(vt, ot, pt, cap, ts) ==
    [BaseConfig EXCEPT !.window_size = 2,
                       !.volume_z_threshold = vt,
                       !.order_timeout = ot,
                       !.position_close_timeout = pt,
                       !.max_concurrent_orders = cap,
                       !.target_symbols = ts]

BotConfigs ==
    {BotConfig(0, 2, 3, 1, {}), BotConfig(1, 1, 3, 1, {}),
     BotConfig(0, 2, 1, 2, {}), BotConfig(0, 1, 1, 0, {}),
     BotConfig(0, SecondsPerDay, 3, 1, {"A"})}

\* the snapshots the feed returns to the poll loop
BotSnapshots ==
    {EmptyDict,
     [s \in Symbols |-> [price |-> 1, volume |-> 1]],
     [s \in Symbols |-> IF s = "A" THEN [price |-> 2, volume |-> 2]
                                   ELSE [price |-> 1, volume |-> 2]],
     [s \in {"A"} |-> [price |-> 2, volume |-> 4]],
     [s \in {"B"} |-> [price |-> 1, volume |-> 2]]}

St == [active_orders    |-> active_orders,
       position_tracker |-> position_tracker,
       resting          |-> exch_resting,
       position         |-> exch_position,
       requests         |-> <<>>]

\* the bot's maps, the exchange and the request log after an operation
Commit(st) ==
    /\ active_orders' = st.active_orders
    /\ position_tracker' = st.position_tracker
    /\ exch_resting' = st.resting
    /\ exch_position' = st.position
    /\ requests' = st.requests

\* the orders, by id and placement time, of the cancel requests of a log made
\* at time t that did not succeed
FailedCancels(log, t) ==
    {[order_id |-> log[i].order_id, placed_at |-> t - log[i].age] :
        i \in {j \in 1..Len(log) :
                  log[j].op = "cancel" /\ log[j].result # "success"}}

\* a step that issues no gateway request
Quiet(op) ==
    /\ last_call' = [op |-> op]
    /\ requests' = <<>>
    /\ UNCHANGED <<failed_cancels, failed_closes>>

\* the symbols a call took out of position_tracker without a close request
Untracked(before, after) ==
    {s \in Keys(before.position_tracker) \ Keys(after.position_tracker) :
        \A k \in 1..Len(after.requests) :
            ~(after.requests[k].op = "close" /\ after.requests[k].symbol = s)}

\* the symbols of the close requests of a log that did not succeed
FailedCloses(log) ==
    {log[i].symbol : i \in {j \in 1..Len(log) :
                               log[j].op = "close" /\ log[j].result # "success"}}

\* if len(self.active_orders) > 0: break, after process_anomaly
StopAfterPlacementOff(orders) == FALSE

StopAfterPlacement(orders) == Cardinality(Keys(orders)) > 0

\* the symbols of a list of anomalies, in its order
RankedSymbols(anomalies) == [i \in 1..Len(anomalies) |-> anomalies[i].symbol]

\* the if/elif chain of start() that skips the scan while anything is open
AnythingOpenNoOrders(orders, current_positions, tracker) ==
    \/ Cardinality(Keys(current_positions)) > 0
    \/ Cardinality(Keys(tracker)) > 0

AnythingOpen(orders, current_positions, tracker) ==
    \/ Cardinality(Keys(orders)) > 0
    \/ Cardinality(Keys(current_positions)) > 0
    \/ Cardinality(Keys(tracker)) > 0

\* where the loop goes when get_all_asset_data raises: sleep, then continue
AfterFetchFailureExit == "stopped"

AfterFetchFailure == "sleep"

\* the for loop over the ranked anomalies in start(), from anomaly i on
RECURSIVE HandleLoop(_, _, _, _, _, _)
HandleLoop(st, det, anomalies, i, outcomes, t) ==
    IF i > Len(anomalies) THEN st
    ELSE IF CapReached(st.active_orders) THEN st
    ELSE LET st2 == process_anomaly(st, det, anomalies[i],
                                    outcomes[anomalies[i].symbol], t)
         IN  IF StopAfterPlacement(st2.active_orders) THEN st2
             ELSE HandleLoop(st2, det, anomalies, i + 1, outcomes, t)

\* the snapshot after the SYMBOLS filter of start()
Filtered(data) ==
    IF cfg.target_symbols # {}
    THEN [s \in Keys(data) \cap cfg.target_symbols |-> data[s]]
    ELSE data

\* get_all_asset_data raises, or returns nothing, or nothing passes the
\* SYMBOLS filter: the tick ends with the sleep
FetchFail ==
    /\ pc = "top" /\ running
    /\ pc' = AfterFetchFailure
    /\ Quiet("fetch")
    /\ reconciled' = FALSE
    /\ UNCHANGED <<cfg, detector, detGhosts, active_orders, position_tracker,
                   running, now, exch_resting, exch_position>>

FetchNothing(data) ==
    /\ pc = "top" /\ running
    /\ Keys(data) = {} \/ Keys(Filtered(data)) = {}
    /\ pc' = "sleep"
    /\ Quiet("fetch")
    /\ reconciled' = FALSE
    /\ UNCHANGED <<cfg, detector, detGhosts, active_orders, position_tracker,
                   running, now, exch_resting, exch_position>>

SkipDetectionObserving(data, query) ==
    /\ pc = "top" /\ running
    /\ Keys(Filtered(data)) # {}
    /\ AnythingOpen(active_orders, get_positions(exch_position, query),
                    position_tracker)
    /\ pc' = "expire"
    /\ last_call' = [op |-> "detect", scanned |-> FALSE, ranked |-> <<>>]
    /\ requests' = <<>>
    /\ reconciled' = FALSE
    /\ detector' = scan_all_assets(detector, Filtered(data)).det
    /\ UNCHANGED <<cfg, detGhosts, active_orders, position_tracker,
                   running, now, exch_resting, exch_position, failed_cancels,
                   failed_closes>>

\* get_all_asset_data returns data and the detection block of start() finds
\* something open: the scan is skipped
SkipDetection(data, query) ==
    /\ pc = "top" /\ running
    /\ Keys(Filtered(data)) # {}
    /\ AnythingOpen(active_orders, get_positions(exch_position, query),
                    position_tracker)
    /\ pc' = "expire"
    /\ last_call' = [op |-> "detect", scanned |-> FALSE, ranked |-> <<>>]
    /\ requests' = <<>>
    /\ reconciled' = FALSE
    /\ UNCHANGED <<cfg, detector, detGhosts, active_orders, position_tracker,
                   running, now, exch_resting, exch_position, failed_cancels,
                   failed_closes>>

\* get_all_asset_data returns data and nothing is open: the scan, and the
\* loop over its anomalies
DetectAndAct(data, query, outcomes) ==
    /\ pc = "top" /\ running
    /\ Keys(Filtered(data)) # {}
    /\ ~AnythingOpen(active_orders, get_positions(exch_position, query),
                     position_tracker)
    /\ pc' = "expire"
    /\ LET r == scan_all_assets(detector, Filtered(data))
       IN  /\ detector' = r.det
           /\ UNCHANGED detGhosts
           /\ Commit(HandleLoop(St, r.det, r.anomalies, 1, outcomes, now))
           /\ last_call' = [op |-> "detect", scanned |-> TRUE,
                            ranked |-> RankedSymbols(r.anomalies)]
    /\ reconciled' = FALSE
    /\ UNCHANGED <<cfg, running, now, failed_cancels, failed_closes>>

ExpireOrders(outcome) ==
    /\ pc = "expire"
    /\ pc' = "close"
    /\ Commit(check_expired_orders(St, outcome, now))
    /\ last_call' = [op |-> "check_expired_orders"]
    /\ failed_cancels' = FailedCancels(check_expired_orders(St, outcome, now).requests,
                                       now)
    /\ UNCHANGED <<cfg, detector, detGhosts, running, now, failed_closes,
                   reconciled>>

ClosePositions(query, outcome) ==
    /\ pc = "close"
    /\ pc' = "sleep"
    /\ Commit(check_and_close_old_positions(St, query, outcome, now))
    /\ last_call' = [op |-> "check_and_close_old_positions", query |-> query,
                     untracked |-> Untracked(St, check_and_close_old_positions(
                                                     St, query, outcome, now))]
    /\ failed_closes' =
          FailedCloses(check_and_close_old_positions(St, query, outcome, now).requests)
    /\ reconciled' = TRUE
    /\ UNCHANGED <<cfg, detector, detGhosts, running, now, failed_cancels>>

\* asyncio.sleep(monitoring_interval), then back to the while test
Sleep(dt) ==
    /\ pc = "sleep"
    /\ now + dt <= MaxTime
    /\ now' = now + dt
    /\ pc' = "top"
    /\ Quiet("sleep")
    /\ reconciled' = FALSE
    /\ UNCHANGED <<cfg, detector, detGhosts, active_orders, position_tracker,
                   running, exch_resting, exch_position>>

\* while self.running: fails
LoopExitMidTick ==
    /\ pc # "stopped" /\ ~running
    /\ pc' = "stopped"
    /\ Quiet("exit")
    /\ UNCHANGED reconciled
    /\ UNCHANGED <<cfg, detector, detGhosts, active_orders, position_tracker,
                   running, now, exch_resting, exch_position>>

LoopExit ==
    /\ pc = "top" /\ ~running
    /\ pc' = "stopped"
    /\ Quiet("exit")
    /\ UNCHANGED reconciled
    /\ UNCHANGED <<cfg, detector, detGhosts, active_orders, position_tracker,
                   running, now, exch_resting, exch_position>>

\* stop(), from the signal handler
Stop ==
    /\ running /\ pc # "stopped"
    /\ running' = FALSE
    /\ Quiet("stop")
    /\ UNCHANGED reconciled
    /\ UNCHANGED <<cfg, detector, detGhosts, active_orders, position_tracker,
                   pc, now, exch_resting, exch_position>>

\* the exchange fills a resting order
Fill(r) ==
    /\ r \in exch_resting
    /\ exch_resting' = exch_resting \ {r}
    /\ exch_position' = [exch_position EXCEPT ![r.symbol] =
                            RatAdd(@, IF r.is_buy THEN r.size ELSE RatNeg(r.size))]
    /\ Quiet("fill")
    /\ UNCHANGED reconciled
    /\ UNCHANGED <<cfg, detector, detGhosts, active_orders, position_tracker,
                   running, pc, now>>

\* a position is closed from outside the bot
ExternalClose(symbol) ==
    /\ exch_position[symbol].num # 0
    /\ exch_position' = [exch_position EXCEPT ![symbol] = Zero]
    /\ Quiet("external_close")
    /\ UNCHANGED reconciled
    /\ UNCHANGED <<cfg, detector, detGhosts, active_orders, position_tracker,
                   running, pc, now, exch_resting>>

Init == cfg \in BotConfigs /\ InitState

Next ==
    \/ FetchFail
    \/ \E data \in BotSnapshots : FetchNothing(data)
    \/ \E data \in BotSnapshots, query \in {"ok", "fail"} :
          SkipDetection(data, query)
    \/ \E data \in BotSnapshots, query \in {"ok", "fail"},
          outcomes \in [Symbols -> PlaceOutcomes] :
          DetectAndAct(data, query, outcomes)
    \/ \E outcome \in [1..MaxOid -> GatewayOutcomes] : ExpireOrders(outcome)
    \/ \E query \in {"ok", "fail"}, outcome \in [Symbols -> GatewayOutcomes] :
          ClosePositions(query, outcome)
    \/ \E dt \in SleepSteps : Sleep(dt)
    \/ LoopExit
    \/ Stop
    \/ \E r \in exch_resting : Fill(r)
    \/ \E symbol \in Symbols : ExternalClose(symbol)

Spec == Init /\ [][Next]_vars

(***************************************************************************)
(* The operations of the bot called one at a time, in any order            *)
(***************************************************************************)
\* the last second at which an operation is called
MaxOpsTime == 1

OpsConfigs ==
    {BotConfig(0, 2, 3, 2, {}), BotConfig(1, 1, 3, 1, {}),
     [BotConfig(0, 2, 3, 1, {}) EXCEPT !.legs = LegsAtPar]}

\* the market snapshots handed to scan_all_assets
OpsSnapshots ==
    {[s \in {"A"} |-> [price |-> 1, volume |-> 1]],
     [s \in Symbols |-> [price |-> 1, volume |-> 1]]}

OpScan(data) ==
    /\ detector' = scan_all_assets(detector, data).det
    /\ Quiet("scan_all_assets")
    /\ UNCHANGED reconciled
    /\ UNCHANGED <<cfg, detGhosts, active_orders, position_tracker, running, pc,
                   now, exch_resting, exch_position>>

\* process_anomaly on what detect_anomaly returns for a reading of the symbol
OpHandle(symbol, reading, outcome) ==
    /\ Commit(process_anomaly(St, detector,
                              detect_anomaly(detector, symbol, reading.price,
                                             reading.volume),
                              outcome, now))
    /\ last_call' = [op |-> "process_anomaly", symbol |-> symbol]
    /\ UNCHANGED <<cfg, detector, detGhosts, running, pc, now, failed_cancels,
                   failed_closes, reconciled>>

OpExpire(outcome) ==
    /\ Commit(check_expired_orders(St, outcome, now))
    /\ last_call' = [op |-> "check_expired_orders"]
    /\ failed_cancels' = FailedCancels(check_expired_orders(St, outcome, now).requests,
                                       now)
    /\ UNCHANGED <<cfg, detector, detGhosts, running, pc, now, failed_closes,
                   reconciled>>

OpClose(query, outcome) ==
    /\ Commit(check_and_close_old_positions(St, query, outcome, now))
    /\ last_call' = [op |-> "check_and_close_old_positions", query |-> query,
                     untracked |-> Untracked(St, check_and_close_old_positions(
                                                     St, query, outcome, now))]
    /\ failed_closes' =
          FailedCloses(check_and_close_old_positions(St, query, outcome, now).requests)
    /\ UNCHANGED <<cfg, detector, detGhosts, running, pc, now, failed_cancels,
                   reconciled>>

\* time passes between two calls
OpWait ==
    /\ now + 1 <= MaxOpsTime
    /\ now' = now + 1
    /\ Quiet("wait")
    /\ UNCHANGED reconciled
    /\ UNCHANGED <<cfg, detector, detGhosts, active_orders, position_tracker,
                   running, pc, exch_resting, exch_position>>

InitOps == cfg \in OpsConfigs /\ InitState

NextOps ==
    \/ \E data \in OpsSnapshots : OpScan(data)
    \/ \E symbol \in Symbols, outcome \in PlaceOutcomes :
          \E reading \in Readings(symbol) : OpHandle(symbol, reading, outcome)
    \/ \E outcome \in [1..MaxOid -> GatewayOutcomes] : OpExpire(outcome)
    \/ \E query \in {"ok", "fail"}, outcome \in [Symbols -> GatewayOutcomes] :
          OpClose(query, outcome)
    \/ OpWait
    \/ \E r \in exch_resting : Fill(r)
    \/ \E symbol \in Symbols : ExternalClose(symbol)

SpecOps == InitOps /\ [][NextOps]_vars

(***************************************************************************)
(* The operations with the outcome of their Discord notifications          *)
(***************************************************************************)
\* every send_* method of DiscordNotifier runs in a try block that returns
\* False on any exception, and no caller reads the value: the caller goes on
\* from the state it had reached whether the message was delivered or not
NotifiedOrAbort(delivered, before, after) == IF delivered THEN after ELSE before

Notified(delivered, before, after) == after

\* one order set at a time; both timeouts fall due when the clock of the
\* operations reaches its end
NotifyConfigs == {BotConfig(0, MaxOpsTime, MaxOpsTime, 1, {})}

\* process_anomaly reads the symbol and the current price of the anomaly
NotifyReading == [price |-> 1, volume |-> 1]

\* the snapshot that gives both symbols their baseline
NotifySnapshots == {[s \in Symbols |-> NotifyReading]}

NotifyHandle(symbol, reading, outcome, delivered) ==
    /\ Commit(Notified(delivered, St,
                       process_anomaly(St, detector,
                                       detect_anomaly(detector, symbol, reading.price,
                                                      reading.volume),
                                       outcome, now)))
    /\ last_call' = [op |-> "process_anomaly", symbol |-> symbol,
                     delivered |-> delivered]
    /\ UNCHANGED <<cfg, detector, detGhosts, running, pc, now, failed_cancels,
                   failed_closes, reconciled>>

NotifyExpire(outcome, delivered) ==
    /\ Commit(Notified(delivered, St, check_expired_orders(St, outcome, now)))
    /\ last_call' = [op |-> "check_expired_orders", delivered |-> delivered]
    /\ UNCHANGED <<cfg, detector, detGhosts, running, pc, now, failed_cancels,
                   failed_closes, reconciled>>

NotifyClose(query, outcome, delivered) ==
    /\ Commit(Notified(delivered, St,
                       check_and_close_old_positions(St, query, outcome, now)))
    /\ last_call' = [op |-> "check_and_close_old_positions", query |-> query,
                     delivered |-> delivered]
    /\ UNCHANGED <<cfg, detector, detGhosts, running, pc, now, failed_cancels,
                   failed_closes, reconciled>>

InitNotify == cfg \in NotifyConfigs /\ InitState

NextNotify ==
    \/ \E data \in NotifySnapshots : OpScan(data)
    \/ \E symbol \in Symbols, outcome \in PlaceOutcomes, delivered \in BOOLEAN :
          NotifyHandle(symbol, NotifyReading, outcome, delivered)
    \/ \E outcome \in [1..MaxOid -> GatewayOutcomes], delivered \in BOOLEAN :
          NotifyExpire(outcome, delivered)
    \/ \E query \in {"ok", "fail"}, outcome \in [Symbols -> GatewayOutcomes],
          delivered \in BOOLEAN : NotifyClose(query, outcome, delivered)
    \/ OpWait
    \/ \E r \in exch_resting : Fill(r)

SpecNotify == InitNotify /\ [][NextNotify]_vars

(***************************************************************************)
(* The poll loop running for ever                                          *)
(***************************************************************************)
\* asyncio.sleep(monitoring_interval) with the clock kept on the dial of one
\* day: the loop reads the clock only through the .seconds of a difference
SleepOnDial(dt) ==
    /\ pc = "sleep"
    /\ now' = (now + dt) % SecondsPerDay
    /\ pc' = "top"
    /\ Quiet("sleep")
    /\ reconciled' = FALSE
    /\ UNCHANGED <<cfg, detector, detGhosts, active_orders, position_tracker,
                   running, exch_resting, exch_position>>

\* order timeouts below one day and of one day, one order set at a time
LiveConfigs == {BotConfig(0, 1, 1, 1, {}), BotConfig(0, SecondsPerDay, 1, 1, {})}

LiveSnapshots == {[s \in {"A"} |-> [price |-> 1, volume |-> 1]]}

\* every gateway request of the call succeeds
AllOk(keys) == [k \in keys |-> "success"]

InitLive == cfg \in LiveConfigs /\ InitState

\* a tick whose snapshot fetch succeeds
FetchOk ==
    \E data \in LiveSnapshots :
       \/ SkipDetection(data, "ok")
       \/ DetectAndAct(data, "ok", [s \in Symbols |-> AllOk(1..Len(Legs))])

\* the steps of the loop, with a gateway that answers every placement, cancel,
\* close and position request
LoopStep ==
    \/ FetchFail
    \/ FetchOk
    \/ ExpireOrders(AllOk(1..MaxOid))
    \/ ClosePositions("ok", AllOk(Symbols))
    \/ SleepOnDial(1)

NextLive ==
    \/ LoopStep
    \/ \E r \in exch_resting : Fill(r)

\* a successful fetch while something is open: the scan is skipped
FetchSkips == \E data \in LiveSnapshots : SkipDetection(data, "ok")

\* the loop keeps taking its steps and the fetch succeeds again and again;
\* while a symbol has orders or a tracked position the successful fetch is the
\* one that skips the scan
Fairness ==
    /\ WF_vars(FetchFail \/ FetchSkips)
    /\ SF_vars(FetchSkips)
    /\ WF_vars(ExpireOrders(AllOk(1..MaxOid)))
    /\ WF_vars(ClosePositions("ok", AllOk(Symbols)))
    /\ WF_vars(SleepOnDial(1))

SpecLive == InitLive /\ [][NextLive]_vars /\ Fairness

(***************************************************************************)
(* Properties of the detector                                              *)
(***************************************************************************)

\* C3: an update_data call whose sample detect_anomaly classifies as anomalous
\* against the history before the call leaves last_normal_price[symbol] and
\* last_normal_volume[symbol] as they were.
C3_BaselineKeptOnAnomaly ==
    [][\A s \in DOMAIN last_update' :
          last_update'[s].anomalous
              => BaselineOf(detector', s) = BaselineOf(detector, s)]_vars

\* an anomalous sample met a baseline with another price
C3_Witness ==
    \E s \in DOMAIN last_update :
        /\ last_update[s].anomalous
        /\ s \in DOMAIN detector.last_normal_price
        /\ detector.last_normal_price[s] # last_update[s].price

\* C4: last_normal_price[symbol] is the price of the newest observed sample
\* of the symbol that was not classified as anomalous, whatever the length of
\* the history, and it is absent only if the symbol was never observed.
C4_BaselineIsNewestNormal ==
    \A s \in Symbols :
        /\ s \in DOMAIN last_ok =>
              /\ s \in DOMAIN detector.last_normal_price
              /\ detector.last_normal_price[s] = last_ok[s].price
        /\ s \notin DOMAIN detector.last_normal_price => s \notin observed

\* C5: after an update_data call the sample is the newest element of the
\* price window and of the volume window, anomalous or not.
C5_SampleCommitted ==
    \A s \in DOMAIN last_update :
        /\ detector.price_history[s] # <<>>
        /\ detector.volume_history[s] # <<>>
        /\ detector.price_history[s][Len(detector.price_history[s])] = last_update[s].price
        /\ detector.volume_history[s][Len(detector.volume_history[s])] = last_update[s].volume

\* C6: the price window and the volume window of a symbol have the same
\* length, and that length is at most window_size.
C6_WindowsBounded ==
    \A s \in Symbols :
        /\ Len(detector.price_history[s]) = Len(detector.volume_history[s])
        /\ Len(detector.volume_history[s]) <= cfg.window_size

\* a sample was pushed into a full window
C6_Witness ==
    \E s \in DOMAIN last_update :
        /\ ~last_update[s].anomalous
        /\ last_update[s].samples = cfg.window_size
        /\ Len(detector.volume_history[s]) = cfg.window_size

\* C7: with fewer than min_samples samples in the history, detect_anomaly
\* returns is_anomaly = False for every reading, in every mode and with every
\* threshold.
C7_NoAnomalyBelowMinSamples ==
    /\ \A s \in Symbols : \A r \in Readings(s) :
          Len(detector.volume_history[s]) < cfg.min_samples
              => ~detect_anomaly(detector, s, r.price, r.volume).is_anomaly
    /\ last_detect.kind = "detect" /\ last_detect.samples < cfg.min_samples
          => ~last_detect.is_anomaly
    /\ \A s \in DOMAIN last_update :
          last_update[s].samples < cfg.min_samples => ~last_update[s].anomalous

\* detect_anomaly ran on a non-empty history shorter than min_samples with
\* threshold 0, where the comparison abs(z) >= 0 alone would flag the sample
C7_Witness ==
    /\ last_detect.kind = "detect"
    /\ last_detect.samples >= 1
    /\ last_detect.samples < cfg.min_samples
    /\ cfg.volume_z_threshold = 0
    /\ cfg.price_z_threshold = 0

(***************************************************************************)
(* Properties of the bot                                                   *)
(***************************************************************************)

\* C1: in every state of the poll loop the number of symbols with an active
\* order set, the keys of active_orders, is at most max_concurrent_orders.
C1_ActiveSetsWithinCap ==
    Cardinality(Keys(active_orders)) <= cfg.max_concurrent_orders

\* an order set is active at a cap of one
C1_Witness ==
    /\ cfg.max_concurrent_orders = 1
    /\ Cardinality(Keys(active_orders)) = 1

\* C2: no symbol is in active_orders and in position_tracker at once.
C2_NeverInBoth ==
    \A s \in Symbols :
        ~(s \in Keys(active_orders) /\ s \in Keys(position_tracker))

\* C8: process_anomaly issues no request and leaves active_orders and
\* position_tracker as they were when the symbol already has an active order
\* set, or the number of active order sets is at the cap, or the detector has
\* no last normal price for the symbol.
C8_GuardedHandleIsNoOp ==
    [][(/\ last_call'.op = "process_anomaly"
        /\ \/ last_call'.symbol \in Keys(active_orders)
           \/ Cardinality(Keys(active_orders)) >= cfg.max_concurrent_orders
           \/ last_call'.symbol \notin Keys(detector.last_normal_price))
          => /\ requests' = <<>>
             /\ active_orders' = active_orders
             /\ position_tracker' = position_tracker]_vars

\* process_anomaly returned without a request for a symbol that has an active
\* order set and a last normal price, below the cap
C8_Witness ==
    /\ last_call.op = "process_anomaly"
    /\ requests = <<>>
    /\ last_call.symbol \in Keys(active_orders)
    /\ last_call.symbol \in Keys(detector.last_normal_price)
    /\ Cardinality(Keys(active_orders)) < cfg.max_concurrent_orders

\* C9: check_expired_orders sends a cancel request for an active order whose
\* age now - placed_at equals order_timeout, and sends none for an order whose
\* age is order_timeout - 1, which stays in the active order set.
C9_TimeoutBoundaryInclusive ==
    [][last_call'.op = "check_expired_orders"
          => \A s \in Keys(active_orders) : \A i \in 1..Len(active_orders[s]) :
                LET order == active_orders[s][i]
                    age   == now - order.placed_at
                    sent  == \E k \in 1..Len(requests') :
                                 /\ requests'[k].op = "cancel"
                                 /\ requests'[k].order_id = order.order_id
                IN  /\ age = cfg.order_timeout => sent
                    /\ age = cfg.order_timeout - 1 =>
                          /\ ~sent
                          /\ s \in Keys(active_orders')
                          /\ \E j \in 1..Len(active_orders'[s]) :
                                 active_orders'[s][j] = order]_vars

\* C10: an order whose cancel request fails stays in the active order set of
\* its symbol, and as long as it rests on the exchange the next
\* check_expired_orders sends a cancel request for it again.
C10_FailedCancelRetried ==
    [][last_call'.op = "check_expired_orders"
          => /\ \A k \in 1..Len(requests') :
                   (requests'[k].op = "cancel" /\ requests'[k].result # "success")
                       => /\ requests'[k].symbol \in Keys(active_orders')
                          /\ \E j \in 1..Len(active_orders'[requests'[k].symbol]) :
                                 active_orders'[requests'[k].symbol][j].order_id
                                     = requests'[k].order_id
             /\ \A f \in failed_cancels :
                   (\E r \in exch_resting : /\ r.order_id = f.order_id
                                            /\ r.placed_at = f.placed_at)
                       => \E k \in 1..Len(requests') :
                              /\ requests'[k].op = "cancel"
                              /\ requests'[k].order_id = f.order_id]_vars

\* C11: process_anomaly, past its guards, submits every configured leg in
\* the configured order whether or not earlier legs failed; afterwards the
\* active order set of the symbol is exactly the legs that were placed, and
\* the symbol is in active_orders iff at least one leg was placed.
C11_EveryLegSubmitted ==
    [][(/\ last_call'.op = "process_anomaly"
        /\ last_call'.symbol \notin Keys(active_orders)
        /\ Cardinality(Keys(active_orders)) < cfg.max_concurrent_orders
        /\ last_call'.symbol \in Keys(detector.last_normal_price))
          => LET symbol == last_call'.symbol
                 placed == SelectSeq(requests', LAMBDA r : r.result = "success")
             IN  /\ Len(requests') = Len(cfg.legs)
                 /\ \A i \in 1..Len(requests') :
                       /\ requests'[i].op = "place"
                       /\ requests'[i].symbol = symbol
                       /\ requests'[i].leg = i
                 /\ symbol \in Keys(active_orders') <=> placed # <<>>
                 /\ placed # <<>> =>
                       /\ Len(active_orders'[symbol]) = Len(placed)
                       /\ \A j \in 1..Len(placed) :
                             /\ active_orders'[symbol][j].price = placed[j].price
                             /\ active_orders'[symbol][j].size = placed[j].size
                             /\ active_orders'[symbol][j].is_buy = placed[j].is_buy
                             /\ active_orders'[symbol][j].multiplier
                                    = cfg.legs[placed[j].leg].multiplier
                 /\ \A s \in Symbols \ {symbol} :
                       s \in Keys(active_orders') <=> s \in Keys(active_orders)]_vars

\* the first leg failed, the second was submitted and is the whole order set
C11_Witness ==
    /\ last_call.op = "process_anomaly"
    /\ Len(requests) = 2
    /\ requests[1].result = "error"
    /\ requests[2].result = "success"
    /\ last_call.symbol \in Keys(active_orders)
    /\ Len(active_orders[last_call.symbol]) = 1

\* C12: when the exchange reports a nonzero position for a symbol that has an
\* active order set, check_and_close_old_positions takes the symbol out of
\* active_orders and tracks it as a position.
C12_FilledSetPromoted ==
    [][last_call'.op = "check_and_close_old_positions"
          => \A s \in Keys(get_positions(exch_position, last_call'.query))
                        \cap Keys(active_orders) :
                /\ s \notin Keys(active_orders')
                /\ \/ s \in Keys(position_tracker')
                   \/ \E k \in 1..Len(requests') :
                          /\ requests'[k].op = "close"
                          /\ requests'[k].symbol = s
                          /\ requests'[k].result = "success"]_vars

C14_CloseMatchesPosition ==
    [][last_call'.op = "check_and_close_old_positions"
          => \A k \in 1..Len(requests') :
                requests'[k].op = "close" =>
                   LET reported == get_positions(exch_position, last_call'.query)
                       s        == requests'[k].symbol
                   IN  /\ s \in Keys(reported)
                       /\ requests'[k].reduce_only
                       /\ requests'[k].size = RatAbs(reported[s].size)
                       /\ requests'[k].is_buy = (reported[s].size.num < 0)]_vars

\* a close was sent whose size is not the total_size of the tracker entry
C14_Witness ==
    /\ last_call.op = "check_and_close_old_positions"
    /\ \E k \in 1..Len(requests) :
          /\ requests[k].op = "close"
          /\ requests[k].symbol \in Keys(position_tracker)
          /\ position_tracker[requests[k].symbol].total_size # requests[k].size

\* C15: a close that succeeds removes the tracker entry of the symbol; a close
\* that fails leaves the entry as it was, and the next
\* check_and_close_old_positions sends a close for the symbol again while the
\* position is open.
C15_FailedCloseRetried ==
    [][last_call'.op = "check_and_close_old_positions"
          => /\ \A k \in 1..Len(requests') :
                   requests'[k].op = "close" =>
                      LET s == requests'[k].symbol
                      IN  IF requests'[k].result = "success"
                          THEN s \notin Keys(position_tracker')
                          ELSE /\ s \in Keys(position_tracker')
                               /\ s \in Keys(position_tracker)
                                     => position_tracker'[s] = position_tracker[s]
             /\ \A s \in failed_closes :
                   exch_position[s] # Zero
                       => \E k \in 1..Len(requests') :
                              /\ requests'[k].op = "close"
                              /\ requests'[k].symbol = s]_vars

\* C16: a tick that starts with an active order set or a tracked position
\* does not scan the detector and sends no place request: the detector
\* changes, and place requests are sent, only from a state with neither.
C16_NoScanWhileOpen ==
    [][(\/ detector' # detector
        \/ \E k \in 1..Len(requests') : requests'[k].op = "place"
        \/ (last_call'.op = "detect" /\ last_call'.scanned))
          => /\ Keys(active_orders) = {}
             /\ Keys(position_tracker) = {}]_vars

\* the snapshot arrived and the scan was skipped over an active order set
C16_Witness ==
    /\ last_call.op = "detect"
    /\ ~last_call.scanned
    /\ Keys(active_orders) # {}

\* C17: in one tick at most one symbol gets an order set; the anomalies are
\* handled in ranked order, and no anomaly is handled after one whose
\* handling placed an order or once the cap is reached.
C17_OneSymbolPerTick ==
    [][last_call'.op = "detect"
          => LET ranked == last_call'.ranked
                 Rank(s) == CHOOSE i \in 1..Len(ranked) : ranked[i] = s
             IN  /\ Cardinality(Keys(active_orders') \ Keys(active_orders)) <= 1
                 /\ \A k \in 1..Len(requests') :
                       /\ requests'[k].op = "place"
                       /\ \E i \in 1..Len(ranked) : ranked[i] = requests'[k].symbol
                 /\ \A k, l \in 1..Len(requests') :
                       k < l =>
                          /\ Rank(requests'[k].symbol) <= Rank(requests'[l].symbol)
                          /\ requests'[k].result = "success"
                                => requests'[l].symbol = requests'[k].symbol
                 /\ cfg.max_concurrent_orders <= 0 => requests' = <<>>]_vars

\* two anomalies were ranked under a cap of two, and only the first got orders
C17_Witness ==
    /\ last_call.op = "detect"
    /\ cfg.max_concurrent_orders = 2
    /\ Len(last_call.ranked) = 2
    /\ Keys(active_orders) = {last_call.ranked[1]}
    /\ requests # <<>>

\* C18: while stop has not been requested, no step of a tick, whatever the
\* external calls in it return or raise, ends the loop.
C18_OnlyStopEndsLoop ==
    [][running => pc' # "stopped"]_vars

\* a cancel and a close failed in one tick and the loop is at its next tick
C18_Witness ==
    /\ running
    /\ pc = "top"
    /\ failed_cancels # {}
    /\ failed_closes # {}

\* C19: the loop ends only at the top of a tick, with stop requested; after a
\* stop request the steps of the tick in progress still run in their order,
\* and no further tick starts.
C19_StopOnlyAtTop ==
    [][/\ (pc' = "stopped" /\ pc # "stopped") => (pc = "top" /\ ~running)
       /\ (~running /\ pc = "top") => pc' \in {"top", "stopped"}
       /\ (~running /\ pc = "expire") => pc' \in {"expire", "close"}
       /\ (~running /\ pc = "close") => pc' \in {"close", "sleep"}
       /\ (~running /\ pc = "sleep") => pc' \in {"sleep", "top"}]_vars

\* a cancel request was sent after stop was requested
C19_Witness ==
    /\ ~running
    /\ last_call.op = "check_expired_orders"
    /\ requests # <<>>

\* C20: in every tick fill detection has run before check_expired_orders
\* sends its cancel requests.
C20_ReconcileBeforeExpiry ==
    [][last_call'.op = "check_expired_orders" => reconciled]_vars

\* C21: for every leg (multiplier, amount) and last normal price b,
\* process_anomaly submits a post-only order with price b * multiplier, size
\* amount / (b * multiplier), buying iff multiplier < 1, so selling at a
\* multiplier of exactly 1; legs (0.5, 50) and (3.0, 50) at b = 100 give a buy
\* at 50 of size 1 and a sell at 300 of size 1/6.
C21_LegPriceSizeSide ==
    [][last_call'.op = "process_anomaly"
          => /\ \A k \in 1..Len(requests') :
                   LET r == requests'[k]
                       m == cfg.legs[r.leg].multiplier
                       a == cfg.legs[r.leg].amount_usdc
                       b == detector.last_normal_price[r.symbol]
                   IN  /\ r.op = "place"
                       /\ r.post_only
                       /\ r.price.num * m.den = b * m.num * r.price.den
                       /\ r.size.num * r.price.num = a * r.price.den * r.size.den
                       /\ r.is_buy <=> (m.num < m.den)
             /\ TargetPrice(100, Legs[1].multiplier) = [num |-> 50, den |-> 1]
             /\ OrderSize(Legs[1].amount_usdc, TargetPrice(100, Legs[1].multiplier))
                    = [num |-> 1, den |-> 1]
             /\ IsBuy(Legs[1].multiplier)
             /\ TargetPrice(100, Legs[2].multiplier) = [num |-> 300, den |-> 1]
             /\ OrderSize(Legs[2].amount_usdc, TargetPrice(100, Legs[2].multiplier))
                    = [num |-> 1, den |-> 6]
             /\ ~IsBuy(Legs[2].multiplier)]_vars

\* a leg with multiplier 1.0 was submitted, as a sell at the last normal price
C21_Witness ==
    /\ last_call.op = "process_anomaly"
    /\ \E k \in 1..Len(requests) :
          /\ cfg.legs[requests[k].leg].multiplier = [num |-> 1, den |-> 1]
          /\ ~requests[k].is_buy
          /\ requests[k].price.num
                = detector.last_normal_price[requests[k].symbol] * requests[k].price.den

\* C22: against a window of at least min_samples identical values, with a
\* threshold above 0 no value is flagged on that dimension, and with threshold
\* 0 every value that differs from the window value is flagged.
C22_ConstantWindow ==
    \A s \in Symbols : \A r \in Readings(s) :
        LET vh == detector.volume_history[s]
            ph == detector.price_history[s]
            d  == detect_anomaly(detector, s, r.price, r.volume)
        IN  Len(vh) >= cfg.min_samples /\ Len(vh) >= 1 =>
               /\ (\A i \in 1..Len(vh) : vh[i] = vh[1]) =>
                     /\ cfg.volume_z_threshold > 0 => ~d.volume_anomaly
                     /\ (cfg.volume_z_threshold = 0 /\ r.volume # vh[1])
                           => d.volume_anomaly
               /\ (\A i \in 1..Len(ph) : ph[i] = ph[1]) =>
                     /\ cfg.price_z_threshold > 0 => ~d.price_anomaly
                     /\ (cfg.price_z_threshold = 0 /\ r.price # ph[1])
                           => d.price_anomaly

\* with threshold 0 a sample that differs from a constant volume window was
\* classified as anomalous
C22_Witness ==
    \E s \in DOMAIN last_update :
        LET vh == detector.volume_history[s]
        IN  /\ last_update[s].anomalous
            /\ cfg.detection_mode = "vol_only"
            /\ cfg.volume_z_threshold = 0
            /\ Len(vh) >= 2
            /\ last_update[s].samples = Len(vh)
            /\ \A i \in 1..Len(vh) : vh[i] = vh[1]
            /\ last_update[s].volume # vh[1]

\* the two anomalies of the ranking scenario: combined magnitudes
\* 26/5 = 5.2 and 23/5 + 9/2 = 9.1
ScenarioAnomalies ==
    <<[symbol |-> "A", volume_z_score |-> [num |-> 26, rad |-> 25],
       price_z_score |-> [num |-> 0, rad |-> 1]],
      [symbol |-> "B", volume_z_score |-> [num |-> 23, rad |-> 25],
       price_z_score |-> [num |-> -9, rad |-> 4]]>>

\* C23: for every snapshot, scan_all_assets returns each symbol whose
\* detect_anomaly result in this call is anomalous exactly once and no other
\* symbol, in an order of non-increasing abs(volume_z_score) + abs(price_z_score);
\* an anomaly of combined magnitude 9.1 is placed before one of 5.2.
C23_ScanRanked ==
    /\ \A data \in Snapshots :
          LET anomalies == scan_all_assets(detector, data).anomalies
              flagged   == {s \in DOMAIN data :
                               /\ PassesFilter(data[s])
                               /\ detect_anomaly(detector, s, data[s].price,
                                                 data[s].volume).is_anomaly}
          IN  /\ {anomalies[i].symbol : i \in 1..Len(anomalies)} = flagged
              /\ Len(anomalies) = Cardinality(flagged)
              /\ \A i \in 1..Len(anomalies) :
                    anomalies[i] = detect_anomaly(detector, anomalies[i].symbol,
                                                  data[anomalies[i].symbol].price,
                                                  data[anomalies[i].symbol].volume)
              /\ \A i, j \in 1..Len(anomalies) :
                    i < j => Magnitude(anomalies[i]) >= Magnitude(anomalies[j])
    /\ Magnitude(ScenarioAnomalies[1]) = 5200
    /\ Magnitude(ScenarioAnomalies[2]) = 9100
    /\ RankedSymbols(SortRanked(ScenarioAnomalies)) = <<"B", "A">>

\* a scan has just flagged both symbols and ranks the one iterated second first
C23_Witness ==
    /\ DOMAIN last_update = {"A", "B"}
    /\ last_update["A"].anomalous /\ last_update["B"].anomalous
    /\ LET data == [s \in {"A", "B"} |-> [price |-> last_update[s].price,
                                          volume |-> last_update[s].volume]]
           anomalies == scan_all_assets(detector, data).anomalies
       IN  /\ RankedSymbols(anomalies) = <<"B", "A">>
           /\ Magnitude(anomalies[1]) > Magnitude(anomalies[2])

\* C24: a detect_anomaly call leaves every window and every baseline as they
\* were; in a scan or an update the sample of a symbol is classified against
\* the windows as they were before the call, and is admitted to them (or
\* kept out of them) according to that classification.
C24_DetectIsPure ==
    [][/\ last_detect'.kind = "detect" => detector' = detector
       /\ last_detect'.kind = "none" =>
             \A s \in Symbols :
                IF s \in DOMAIN last_update'
                THEN LET u  == last_update'[s]
                         d  == detect_anomaly(detector, s, u.price, u.volume)
                     IN  /\ u.anomalous = d.is_anomaly
                         /\ u.samples = Len(detector.volume_history[s])
                         /\ detector'.volume_history[s] =
                               IF d.is_anomaly THEN detector.volume_history[s]
                               ELSE Push(detector.volume_history[s], u.volume)
                         /\ detector'.price_history[s] =
                               IF d.is_anomaly THEN detector.price_history[s]
                               ELSE Push(detector.price_history[s], u.price)
                ELSE /\ detector'.volume_history[s] = detector.volume_history[s]
                     /\ detector'.price_history[s] = detector.price_history[s]]_vars

\* detect_anomaly has just flagged a sample against a full window of a symbol
\* that has a baseline
C24_Witness ==
    /\ last_detect.kind = "detect"
    /\ last_detect.is_anomaly
    /\ Len(detector.volume_history[last_detect.symbol]) = cfg.window_size
    /\ last_detect.samples = cfg.window_size
    /\ last_detect.symbol \in DOMAIN detector.last_normal_price

\* C25: once a window holds min_samples samples, is_anomaly is the value the
\* detection mode selects from the two flags (price_only: the price flag,
\* vol_only: the volume flag, vol_and_price: both, vol_or_price: either), and
\* the two z-scores and the two flags are what the window, the sample and the
\* thresholds give, whatever the mode is.
C25_ModeIsSelector ==
    \A s \in Symbols : \A r \in Readings(s) :
        LET d  == detect_anomaly(detector, s, r.price, r.volume)
            vz == ZScore(detector.volume_history[s], r.volume, cfg.volume_z_threshold)
            pz == ZScore(detector.price_history[s], r.price, cfg.price_z_threshold)
            va == Exceeds(vz, cfg.volume_z_threshold)
            pa == Exceeds(pz, cfg.price_z_threshold)
        IN  Len(detector.volume_history[s]) >= cfg.min_samples =>
               /\ d.volume_z_score = vz /\ d.price_z_score = pz
               /\ d.volume_anomaly = va /\ d.price_anomaly = pa
               /\ cfg.detection_mode = "price_only"    => d.is_anomaly = pa
               /\ cfg.detection_mode = "vol_only"      => d.is_anomaly = va
               /\ cfg.detection_mode = "vol_and_price" => d.is_anomaly = (va /\ pa)
               /\ cfg.detection_mode = "vol_or_price"  => d.is_anomaly = (va \/ pa)
               /\ CombineMode("price_only", va, pa) = pa
               /\ CombineMode("vol_only", va, pa) = va
               /\ CombineMode("vol_and_price", va, pa) = (va /\ pa)
               /\ CombineMode("vol_or_price", va, pa) = (va \/ pa)

\* in the and-mode a detect_anomaly call has just returned False for a symbol
\* one of whose readings raises the volume flag but not the price flag
C25_Witness ==
    /\ cfg.detection_mode = "vol_and_price"
    /\ last_detect.kind = "detect"
    /\ ~last_detect.is_anomaly
    /\ last_detect.samples >= cfg.min_samples
    /\ \E r \in Readings(last_detect.symbol) :
          LET d == detect_anomaly(detector, last_detect.symbol, r.price, r.volume)
          IN  d.volume_anomaly /\ ~d.price_anomaly /\ ~d.is_anomaly

\* the order sets, the tracker, the exchange account and the request log
Core == <<active_orders, position_tracker, exch_resting, exch_position, requests>>

CoreOf(st) ==
    <<st.active_orders, st.position_tracker, st.resting, st.position, st.requests>>

\* the gateway outcomes a request log shows: what place_limit_order returned
\* for each leg, cancel_order for each order id, place_market_order for each
\* symbol ("success" where the log has no such request)
PlacedOutcome(log) ==
    [i \in 1..Len(Legs) |->
        IF \E k \in 1..Len(log) : log[k].op = "place" /\ log[k].leg = i
                                   /\ log[k].result # "success"
        THEN "error" ELSE "success"]

CancelledOutcome(log) ==
    [id \in 1..MaxOid |->
        IF \E k \in 1..Len(log) : log[k].op = "cancel" /\ log[k].order_id = id
                                   /\ log[k].result # "success"
        THEN "error" ELSE "success"]

ClosedOutcome(log) ==
    [s \in Symbols |->
        IF \E k \in 1..Len(log) : log[k].op = "close" /\ log[k].symbol = s
                                   /\ log[k].result # "success"
        THEN "error" ELSE "success"]

\* C26: a call of process_anomaly, check_expired_orders or
\* check_and_close_old_positions leaves the order sets, the position tracker,
\* the exchange account and the placement, cancel and close requests that the
\* operation gives for its market data and the gateway outcomes its request
\* log shows, whether the notifications it sent were delivered or failed.
C26_NotifyOutcomeIgnored ==
    [][/\ last_call'.op = "process_anomaly" =>
             Core' = CoreOf(process_anomaly(
                                St, detector,
                                detect_anomaly(detector, last_call'.symbol,
                                               NotifyReading.price,
                                               NotifyReading.volume),
                                PlacedOutcome(requests'), now))
       /\ last_call'.op = "check_expired_orders" =>
             Core' = CoreOf(check_expired_orders(St, CancelledOutcome(requests'),
                                                 now))
       /\ last_call'.op = "check_and_close_old_positions" =>
             Core' = CoreOf(check_and_close_old_positions(
                                St, last_call'.query, ClosedOutcome(requests'), now))
      ]_vars

\* process_anomaly has just placed and recorded an order set although its
\* notifications failed
C26_Witness ==
    /\ last_call.op = "process_anomaly"
    /\ "delivered" \in DOMAIN last_call
    /\ ~last_call.delivered
    /\ last_call.symbol \in Keys(active_orders)
    /\ requests # <<>>

\* the cancel requests of a log that the exchange answered with success
CancelledOk(log, symbol, order_id) ==
    \E k \in 1..Len(log) :
        /\ log[k].op = "cancel" /\ log[k].symbol = symbol
        /\ log[k].order_id = order_id /\ log[k].result = "success"

\* C27: when a check_expired_orders call cancels every order of a symbol's set
\* successfully, the symbol is in neither active_orders nor position_tracker
\* after that call.
C27_EmptySetCleared ==
    [][last_call'.op = "check_expired_orders" =>
          \A s \in Keys(active_orders) :
             (\A i \in 1..Len(active_orders[s]) :
                 CancelledOk(requests', s, active_orders[s][i].order_id))
                => /\ s \notin Keys(active_orders')
                   /\ s \notin Keys(position_tracker')]_vars

\* check_expired_orders has just cancelled both orders of a set and the symbol
\* is idle
C27_Witness ==
    /\ last_call.op = "check_expired_orders"
    /\ \E s \in Symbols :
          /\ s \notin Keys(active_orders)
          /\ s \notin Keys(position_tracker)
          /\ Cardinality({k \in 1..Len(requests) :
                             /\ requests[k].op = "cancel"
                             /\ requests[k].symbol = s
                             /\ requests[k].result = "success"}) = Len(Legs)

\* C28: a symbol that is in position_tracker while the exchange holds a nonzero
\* position in it stays in position_tracker through every step, unless that
\* step sent a close order for the symbol that succeeded; check_expired_orders
\* in particular never removes it.
C28_TrackerKeptWhilePositionOpen ==
    [][\A s \in Keys(position_tracker) :
          (exch_position[s] # Zero /\ s \notin Keys(position_tracker'))
             => \E k \in 1..Len(requests') :
                    /\ requests'[k].op = "close"
                    /\ requests'[k].symbol = s
                    /\ requests'[k].result = "success"]_vars

\* C29: no tick of the loop reaches its sleep without having run
\* check_expired_orders and then check_and_close_old_positions, whatever the
\* snapshot fetch did (raised, returned nothing, or nothing that passes the
\* SYMBOLS filter).
C29_ExpiryEveryTick ==
    [][(pc # "sleep" /\ pc' = "sleep")
          => /\ pc = "close"
             /\ last_call'.op = "check_and_close_old_positions"]_vars

\* C30: check_expired_orders sends a cancel request for every active order
\* whose age now - placed_at is order_timeout or more, however large the age,
\* and check_and_close_old_positions handles every tracked position whose age
\* now - opened_at is position_close_timeout or more: it sends a close order
\* for the symbol or takes the symbol out of position_tracker.
C30_FullAgeCompared ==
    [][/\ last_call'.op = "check_expired_orders" =>
             \A s \in Keys(active_orders) : \A i \in 1..Len(active_orders[s]) :
                now - active_orders[s][i].placed_at >= cfg.order_timeout
                   => \E k \in 1..Len(requests') :
                          /\ requests'[k].op = "cancel"
                          /\ requests'[k].order_id = active_orders[s][i].order_id
       /\ last_call'.op = "check_and_close_old_positions" =>
             \A s \in Keys(position_tracker) :
                now - position_tracker[s].opened_at >= cfg.position_close_timeout
                   => \/ s \notin Keys(position_tracker')
                      \/ \E k \in 1..Len(requests') :
                             /\ requests'[k].op = "close"
                             /\ requests'[k].symbol = s]_vars

\* C31: with ticks that keep occurring, fetches that succeed again and again
\* and cancel and close requests that succeed again and again, a symbol that
\* has an active order set is eventually in neither active_orders nor
\* position_tracker.
C31_EventuallyIdle ==
    \A s \in Symbols :
        (s \in Keys(active_orders))
           ~> (s \notin Keys(active_orders) /\ s \notin Keys(position_tracker))

\* C32: against a window of at least min_samples identical values, a value
\* equal to the window value has z-score 0 on that dimension and is not
\* flagged on it, whatever the threshold, 0 included.
C32_NoChangeNoFlag ==
    \A s \in Symbols : \A r \in Readings(s) :
        LET vh == detector.volume_history[s]
            ph == detector.price_history[s]
            d  == detect_anomaly(detector, s, r.price, r.volume)
        IN  Len(vh) >= cfg.min_samples /\ Len(vh) >= 1 =>
               /\ ((\A i \in 1..Len(vh) : vh[i] = vh[1]) /\ r.volume = vh[1])
                     => d.volume_z_score.num = 0 /\ ~d.volume_anomaly
               /\ ((\A i \in 1..Len(ph) : ph[i] = ph[1]) /\ r.price = ph[1])
                     => d.price_z_score.num = 0 /\ ~d.price_anomaly

\* a dimension of a sample against its window hist: whether the value deviates
\* from the window mean, and whether its z-score is above threshold t in
\* absolute value (the z-score is 0 when the window has no spread)
Deviates(hist, x) == Len(hist) * x # Sum(hist)

AboveThreshold(hist, x, t) ==
    LET n   == Len(hist)
        rad == n * SumSq(hist) - Sum(hist) * Sum(hist)
        num == n * x - Sum(hist)
    IN  rad > 0 /\ num * num > t * t * rad

\* C33: once the window holds min_samples samples, with a threshold above 0 a
\* dimension is flagged exactly when abs(z) is above the threshold (abs(z)
\* equal to it is not flagged), and with threshold 0 it is flagged exactly
\* when the value deviates from the window mean.
C33_FlagIffAboveThreshold ==
    \A s \in Symbols : \A r \in Readings(s) :
        LET vh == detector.volume_history[s]
            ph == detector.price_history[s]
            vt == cfg.volume_z_threshold
            pt == cfg.price_z_threshold
            d  == detect_anomaly(detector, s, r.price, r.volume)
        IN  Len(vh) >= cfg.min_samples /\ Len(vh) >= 1 =>
               /\ vt > 0 => (d.volume_anomaly <=> AboveThreshold(vh, r.volume, vt))
               /\ vt = 0 => (d.volume_anomaly <=> Deviates(vh, r.volume))
               /\ pt > 0 => (d.price_anomaly <=> AboveThreshold(ph, r.price, pt))
               /\ pt = 0 => (d.price_anomaly <=> Deviates(ph, r.price))

\* C34: a process_anomaly call for a symbol that is in position_tracker sends
\* no placement request, also when the symbol has no active order set and the
\* number of active order sets is below the cap.
C34_NoPlacementWhileTracked ==
    [][(/\ last_call'.op = "process_anomaly"
        /\ last_call'.symbol \in Keys(position_tracker))
          => \A k \in 1..Len(requests') : requests'[k].op # "place"]_vars

\* C35: for every snapshot, scan_all_assets leaves the volume window, the
\* price window and the last normal values of every symbol that is not in the
\* snapshot, or has a price of 0 or less, or a volume below min_volume_usd, as
\* they were, and reports no such symbol as an anomaly.
C35_ScanTouchesObservedOnly ==
    \A data \in Snapshots :
        LET r == scan_all_assets(detector, data)
        IN  \A s \in Symbols :
               (\/ s \notin DOMAIN data
                \/ data[s].price <= 0
                \/ data[s].volume < cfg.min_volume_usd)
                  => /\ r.det.volume_history[s] = detector.volume_history[s]
                     /\ r.det.price_history[s] = detector.price_history[s]
                     /\ BaselineOf(r.det, s) = BaselineOf(detector, s)
                     /\ \A i \in 1..Len(r.anomalies) : r.anomalies[i].symbol # s

\* under a volume filter a scan has just admitted a sample of A and none of B,
\* which has a window and a baseline
C35_Witness ==
    /\ cfg.min_volume_usd > 0
    /\ DOMAIN last_update = {"A"}
    /\ ~last_update["A"].anomalous
    /\ Len(detector.volume_history["B"]) >= 1
    /\ "B" \in DOMAIN detector.last_normal_price

\* C36: a tick whose scan is skipped, because the snapshot is empty or could
\* not be fetched or because an order set, a tracked position or a position
\* reported by the exchange exists, leaves every window and every last normal
\* value of the detector as it was; the detector changes only in a tick that
\* scans.
C36_SkippedTickKeepsDetector ==
    [][/\ (\/ last_call'.op = "fetch"
           \/ (last_call'.op = "detect" /\ ~last_call'.scanned))
             => detector' = detector
       /\ detector' # detector
             => (last_call'.op = "detect" /\ last_call'.scanned)]_vars

\* the scan was skipped over a position that only the exchange reports, with
\* samples already in the windows
C36_Witness ==
    /\ last_call.op = "detect"
    /\ ~last_call.scanned
    /\ Keys(active_orders) = {}
    /\ Keys(position_tracker) = {}
    /\ \E s \in Symbols : Len(detector.volume_history[s]) >= 1

\* C37: an order leg recorded in active_orders leaves active_orders only when
\* it no longer rests on the exchange: no step drops from tracking a leg that
\* is still resting after the step.
C37_RestingLegStaysTracked ==
    [][\A s \in Keys(active_orders) :
          \A i \in 1..Len(active_orders[s]) :
             LET id == active_orders[s][i].order_id
             IN  (\E r \in exch_resting' : r.order_id = id)
                    => /\ s \in Keys(active_orders')
                       /\ \E j \in 1..Len(active_orders'[s]) :
                             active_orders'[s][j].order_id = id]_vars

\* C38: check_and_close_old_positions removes the tracker entry of a symbol
\* whose exchange position is open only through a close request for it that
\* succeeded: a position query that failed drops no such entry.
C38_OpenPositionStaysTracked ==
    [][last_call'.op = "check_and_close_old_positions"
          => \A s \in Keys(position_tracker) :
                (exch_position[s] # Zero /\ s \notin Keys(position_tracker'))
                   => \E k \in 1..Len(requests') :
                         /\ requests'[k].op = "close"
                         /\ requests'[k].symbol = s
                         /\ requests'[k].result = "success"]_vars

\* C39: in a scanning tick, a symbol whose leg placements all failed gets no
\* entry in active_orders and none in position_tracker, and when an anomaly is
\* ranked right after it, the cap allows an order set and that anomaly's symbol
\* has a last normal price, placements are requested for that symbol in the
\* same tick.
C39_AllLegsFailedMovesOn ==
    [][(last_call'.op = "detect" /\ last_call'.scanned)
          => LET ranked == last_call'.ranked
                 Tried(s) == \E k \in 1..Len(requests') :
                                 /\ requests'[k].op = "place"
                                 /\ requests'[k].symbol = s
                 AllFailed(s) == /\ Tried(s)
                                 /\ \A k \in 1..Len(requests') :
                                       requests'[k].symbol = s
                                          => requests'[k].result # "success"
             IN  \A i \in 1..Len(ranked) :
                    AllFailed(ranked[i])
                       => /\ ranked[i] \notin Keys(active_orders')
                          /\ ranked[i] \notin Keys(position_tracker')
                          /\ (/\ i < Len(ranked)
                              /\ cfg.max_concurrent_orders > 0
                              /\ ranked[i + 1] \in Keys(detector'.last_normal_price)
                              /\ detector'.last_normal_price[ranked[i + 1]] # 0)
                                => Tried(ranked[i + 1])]_vars

\* every leg of the first-ranked anomaly failed and the second-ranked one got
\* the order set of the tick
C39_Witness ==
    /\ last_call.op = "detect"
    /\ last_call.scanned
    /\ Len(last_call.ranked) = 2
    /\ Keys(active_orders) = {last_call.ranked[2]}
    /\ Keys(position_tracker) = {last_call.ranked[2]}
    /\ \E k \in 1..Len(requests) : /\ requests[k].symbol = last_call.ranked[1]
                                   /\ requests[k].result = "error"
    /\ \A k \in 1..Len(requests) :
          requests[k].symbol = last_call.ranked[1] => requests[k].result = "error"

====
